---- MODULE Spec2Model ----
(***************************************************************************)
(* Streaming export benchmark: the four stream formatters (formatters.js)  *)
(* and measureExport (lib benchmark module and src/index.js), which wires  *)
(* a pg query stream through one formatter into a counting Writable with   *)
(* stream.pipeline and releases the pooled client in a finally block.      *)
(*                                                                         *)
(* Text is modelled as a sequence of one-character strings, so escaping    *)
(* and framing are computed character by character.                        *)
(***************************************************************************)
EXTENDS Integers, Sequences, FiniteSets, TLC

(***************************************************************************)
(* Bounds of the model.                                                    *)
(*   MaxRows      longest result set the source delivers                   *)
(*   WritableHWM  writable-side highWaterMark of the formatter (objects)   *)
(*   ReadableHWM  readable-side highWaterMark of the formatter (objects)   *)
(*   RowGroupSize rows the parquet writer buffers before a row group       *)
(*   YieldEvery   the formatter yields with setImmediate when rowCount is  *)
(*                a multiple of this; the source writes 1000 (formatters   *)
(*                line 205), the model runs the same test with a period    *)
(*                that MaxRows rows reach                                  *)
(***************************************************************************)
MaxRows == 7
WritableHWM == 2
ReadableHWM == 1
RowGroupSize == 2
YieldEvery == 2

(***************************************************************************)
(* Text helpers.                                                           *)
(***************************************************************************)
RECURSIVE Flatten(_)
Flatten(ss) == IF ss = <<>> THEN <<>> ELSE Head(ss) \o Flatten(Tail(ss))

\* Array.prototype.join
RECURSIVE Join(_, _)
Join(ss, sep) ==
    IF ss = <<>> THEN <<>>
    ELSE IF Len(ss) = 1 THEN ss[1]
    ELSE ss[1] \o sep \o Join(Tail(ss), sep)

\* every occurrence of character c in s replaced by r, left to right
RECURSIVE ReplaceChars(_, _, _)
ReplaceChars(s, c, r) ==
    IF s = <<>> THEN <<>>
    ELSE (IF Head(s) = c THEN r ELSE <<Head(s)>>) \o ReplaceChars(Tail(s), c, r)

\* String.prototype.replace(/c/g, r).  The receiver is evaluated once, as the call
\* evaluates it, before its characters are replaced.
ReplaceAll(s, c, r) == CHOOSE out \in {ReplaceChars(str, c, r) : str \in {s}} : TRUE

CountChar(s, c) == Cardinality({p \in 1..Len(s) : s[p] = c})

Includes(s, c) == \E i \in 1..Len(s) : s[i] = c

(***************************************************************************)
(* Values of a row.  t is the JavaScript type of the value; s is its text: *)
(* the characters of a string, the digits of a number, the ISO-8601 text   *)
(* of a Date, the JSON text of a plain object.  "invalid_date" is a Date    *)
(* whose time value is NaN, "nonfinite" is NaN or an Infinity, "circular"  *)
(* is an object that refers to itself.                                     *)
(***************************************************************************)
Val(t, s) == [t |-> t, s |-> s]
Undefined == Val("undefined", <<>>)
Null == Val("null", <<>>)

\* chunk[col.source]: a field the row does not hold reads as undefined
Field(chunk, f) == IF f \in DOMAIN chunk THEN chunk[f] ELSE Undefined

\* The result of an evaluation that may throw
Ok(s) == [ok |-> TRUE, s |-> s]
Thrown == [ok |-> FALSE, s |-> <<>>]

\* JSON.stringify of a string: quotes, with ", \ and newline escaped
JsonQuote(s) ==
    <<"\"">> \o ReplaceAll(ReplaceAll(ReplaceAll(s, "\\", <<"\\", "\\">>),
                                      "\"", <<"\\", "\"">>),
                           "\n", <<"\\", "n">>) \o <<"\"">>

\* JSON.stringify(val) for a value that is defined
JsonStringify(val) ==
    CASE val.t = "null" -> Ok(<<"n", "u", "l", "l">>)
      [] val.t = "string" -> Ok(JsonQuote(val.s))
      [] val.t = "number" -> Ok(val.s)
      [] val.t = "boolean" -> Ok(val.s)
      [] val.t = "nonfinite" -> Ok(<<"n", "u", "l", "l">>)
      [] val.t = "date" -> Ok(JsonQuote(val.s))
      [] val.t = "invalid_date" -> Ok(<<"n", "u", "l", "l">>)
      [] val.t = "object" -> Ok(val.s)
      [] val.t = "circular" -> Thrown
      [] OTHER -> Thrown

\* prepareValue(val); toISOString throws a RangeError on a Date that is not valid
prepareValue(val) ==
    IF val.t = "null" \/ val.t = "undefined" THEN Ok(<<>>)
    ELSE IF val.t = "date" THEN Ok(val.s)
    ELSE IF val.t = "invalid_date" THEN Thrown
    ELSE IF val.t = "object" \/ val.t = "circular" THEN JsonStringify(val)
    ELSE Ok(val.s)

(***************************************************************************)
(* The column projection runBenchmark and index.js pass to measureExport.  *)
(***************************************************************************)
columns ==
    << [source |-> "id",       target |-> <<"i", "d">>],
       [source |-> "name",     target |-> <<"n", "a", "m", "e">>],
       [source |-> "value",    target |-> <<"v", "a", "l">>],
       [source |-> "metadata", target |-> <<"m", "e", "t", "a">>] >>

\* every element of a sequence of results is ok
AllOk(rs) == \A i \in 1..Len(rs) : rs[i].ok

Texts(rs) == [i \in 1..Len(rs) |-> rs[i].s]

(***************************************************************************)
(* JSONStreamFormatter                                                     *)
(***************************************************************************)
JsonOpenFrame == <<"[">>
JsonCloseFrame == <<"]">>

\* JSON.stringify(output): properties whose value is undefined are left out
JsonObject(chunk) ==
    LET present == SelectSeq(columns, LAMBDA col : Field(chunk, col.source).t # "undefined")
        parts == [i \in 1..Len(present) |-> JsonStringify(Field(chunk, present[i].source))]
        props == [i \in 1..Len(present) |->
                     <<"\"">> \o present[i].target \o <<"\"", ":">> \o parts[i].s]
    IN  IF AllOk(parts) THEN Ok(<<"{">> \o Join(props, <<",">>) \o <<"}">>) ELSE Thrown

\* Mutant: the separator is written before every row
JsonPrefixAlways(first) == <<",">>

JsonPrefix(first) == IF first THEN <<>> ELSE <<",">>

\* the chunk _transform pushes, or the exception caught by its try block
JsonRowFrame(chunk, first) ==
    LET o == JsonObject(chunk)
    IN  IF o.ok THEN Ok(JsonPrefix(first) \o o.s) ELSE Thrown

(***************************************************************************)
(* CSVStreamFormatter                                                      *)
(***************************************************************************)
CsvHeader == Join([i \in 1..Len(columns) |-> columns[i].target], <<",">>) \o <<"\n">>

\* Mutant: embedded quotes are left as they are
CsvEscapeNone(val) == val

CsvEscape(val) == IF Includes(val, "\"") THEN ReplaceAll(val, "\"", <<"\"", "\"">>) ELSE val

\* Mutant: a value is quoted only when it holds a quote, a comma or a line break
CsvFieldWhenNeeded(val) ==
    IF Includes(val, "\"") \/ Includes(val, ",") \/ Includes(val, "\n")
    THEN <<"\"">> \o CsvEscape(val) \o <<"\"">>
    ELSE val

CsvField(val) == <<"\"">> \o CsvEscape(val) \o <<"\"">>

CsvRowFrame(chunk) ==
    LET vals == [i \in 1..Len(columns) |-> prepareValue(Field(chunk, columns[i].source))]
    IN  IF AllOk(vals)
        THEN Ok(Join([i \in 1..Len(vals) |-> CsvField(vals[i].s)], <<",">>) \o <<"\n">>)
        ELSE Thrown

(***************************************************************************)
(* XMLStreamFormatter                                                      *)
(***************************************************************************)
XmlOpenFrame ==
    <<"<", "?", "x", "m", "l", " ", "v", "e", "r", "s", "i", "o", "n", "=", "\"", "1", ".",
      "0", "\"", " ", "e", "n", "c", "o", "d", "i", "n", "g", "=", "\"", "U", "T", "F", "-",
      "8", "\"", "?", ">", "\n", "<", "r", "e", "c", "o", "r", "d", "s", ">", "\n">>
XmlCloseFrame == <<"<", "/", "r", "e", "c", "o", "r", "d", "s", ">">>

\* Mutant: the ampersand is substituted last
XmlEscapeAmpLast(val) ==
    ReplaceAll(
      ReplaceAll(
        ReplaceAll(
          ReplaceAll(
            ReplaceAll(val, "<", <<"&", "l", "t", ";">>),
            ">", <<"&", "g", "t", ";">>),
          "\"", <<"&", "q", "u", "o", "t", ";">>),
        "'", <<"&", "a", "p", "o", "s", ";">>),
      "&", <<"&", "a", "m", "p", ";">>)

XmlEscape(val) ==
    ReplaceAll(
      ReplaceAll(
        ReplaceAll(
          ReplaceAll(
            ReplaceAll(val, "&", <<"&", "a", "m", "p", ";">>),
            "<", <<"&", "l", "t", ";">>),
          ">", <<"&", "g", "t", ";">>),
        "\"", <<"&", "q", "u", "o", "t", ";">>),
      "'", <<"&", "a", "p", "o", "s", ";">>)

XmlElement(target, val) ==
    <<" ", " ", " ", " ", "<">> \o target \o <<">">> \o val \o <<"<", "/">> \o target
        \o <<">", "\n">>

XmlRowFrame(chunk) ==
    LET vals == [i \in 1..Len(columns) |-> prepareValue(Field(chunk, columns[i].source))]
    IN  IF AllOk(vals)
        THEN Ok(<<" ", " ", "<", "r", "e", "c", "o", "r", "d", ">", "\n">>
                \o Flatten([i \in 1..Len(vals) |->
                               XmlElement(columns[i].target, XmlEscape(vals[i].s))])
                \o <<" ", " ", "<", "/", "r", "e", "c", "o", "r", "d", ">", "\n">>)
        ELSE Thrown

(***************************************************************************)
(* ParquetStreamFormatter: the row handed to writer.appendRow, and the     *)
(* sections the parquetjs writer hands to the write callback.  The bytes   *)
(* of a section are not modelled beyond the magic number; a row group      *)
(* carries the prepared rows it holds.                                     *)
(***************************************************************************)
ParquetRow(chunk) ==
    LET vals == [i \in 1..Len(columns) |-> prepareValue(Field(chunk, columns[i].source))]
    IN  IF AllOk(vals) THEN Ok(Texts(vals)) ELSE Thrown

ParquetMagic == <<"P", "A", "R", "1">>

\* the bytes of one shredded record, as far as the model carries them
ParquetBytes(rec) == Flatten(rec)

(***************************************************************************)
(* Inputs of one measureExport call.                                       *)
(***************************************************************************)
Formats == {"json", "csv", "xml", "parquet"}

\* format selectors a caller may pass: the four formats and one unknown name
Selectors == Formats \cup {"yaml"}

\* the two measureExport functions of the repository
Variants == {"lib", "index"}

\* rows of SELECT id, name, value, metadata FROM records, as pg parses them
RowA ==
    [id |-> Val("number", <<"1">>), name |-> Val("string", <<"a">>),
     value |-> Val("number", <<"7">>),
     metadata |-> Val("object", <<"{", "\"", "k", "\"", ":", "1", "}">>)]
RowB ==
    [id |-> Val("number", <<"2">>), name |-> Val("string", <<"\"", ",", "\n", "&">>),
     value |-> Null, metadata |-> Null]

\* result sets: rows alternating between the two, starting with either
ResultSet(n, startA) == [i \in 1..n |-> IF (i % 2 = 1) = startA THEN RowA ELSE RowB]
ResultSets == {ResultSet(n, a) : n \in 0..MaxRows, a \in BOOLEAN}

(***************************************************************************)
(* Rows a caller of the formatters may hand them, beyond what the seeded   *)
(* table holds: text with every character the formatters escape, a field   *)
(* the row does not hold, a boolean, a Date, and the values JSON.stringify *)
(* or toISOString treat specially.                                         *)
(***************************************************************************)
MaxAnyRows == 3

\* AT&T "ok"
TextAmp == <<"A", "T", "&", "T", " ", "\"", "o", "k", "\"">>
\* <a href='x'>&amp;</a>
TextMarkup ==
    <<"<", "a", " ", "h", "r", "e", "f", "=", "'", "x", "'", ">", "&", "a", "m", "p", ";",
      "<", "/", "a", ">">>
\* "" , "a" followed by a line break
TextQuotes == <<"\"", "\"", ",", "\"", "a", "\"", "\n">>
IsoDate ==
    <<"2", "0", "2", "4", "-", "0", "1", "-", "0", "2", "T", "0", "3", ":", "0", "4", ":",
      "0", "5", ".", "0", "0", "0", "Z">>

RowAmp ==
    [id |-> Val("number", <<"3">>), name |-> Val("string", TextAmp),
     value |-> Val("boolean", <<"t", "r", "u", "e">>), metadata |-> Val("date", IsoDate)]
RowMarkup ==
    [id |-> Val("number", <<"4">>), name |-> Val("string", TextMarkup),
     value |-> Val("number", <<"-", "1">>), metadata |-> Null]
RowQuotes ==
    [id |-> Val("number", <<"5">>), name |-> Val("string", TextQuotes),
     value |-> Val("number", <<"0">>),
     metadata |-> Val("object", <<"{", "\"", "q", "\"", ":", "\"", "<", "\"", "}">>)]
\* the row holds no name and no metadata
RowSparse == [id |-> Val("number", <<"6">>), value |-> Val("string", <<>>)]
RowNaN ==
    [id |-> Val("number", <<"7">>), name |-> Val("string", <<"n">>),
     value |-> Val("nonfinite", <<"N", "a", "N">>), metadata |-> Null]
RowCircular ==
    [id |-> Val("number", <<"8">>), name |-> Val("string", <<"c">>),
     value |-> Null, metadata |-> Val("circular", <<>>)]
RowBadDate ==
    [id |-> Val("number", <<"9">>), name |-> Val("string", <<"d">>),
     value |-> Null, metadata |-> Val("invalid_date", <<>>)]

AnyRows == <<RowA, RowAmp, RowMarkup, RowQuotes, RowSparse, RowNaN, RowCircular,
             RowBadDate, RowB>>

\* result sets of n rows that run through AnyRows from position start
AnyResultSet(n, start) == [i \in 1..n |-> AnyRows[((start + i - 2) % Len(AnyRows)) + 1]]
AnyResultSets == {AnyResultSet(n, start) : n \in 0..MaxAnyRows, start \in 1..Len(AnyRows)}

NoError == "none"

\* The value a rejected call hands to its caller: the error object, and the stage
\* and format it names.  new Error(`Unknown format: ${fmt}`) names the format in its
\* message; an error of a stream is rethrown as the stream raised it.
Rejection(e, fmt) == [error |-> e, stage |-> "none", format |-> fmt]
NoRejection == Rejection(NoError, "none")

(***************************************************************************)
(* State.                                                                  *)
(*   args  the call's arguments and which measureExport runs               *)
(*   call  measureExport's own position, the client and what it returned   *)
(*   src   the query stream (dbStream)                                     *)
(*   enc   the formatter: the Transform's buffers and the fields the       *)
(*         subclass keeps                                                  *)
(*   sink  nullStream and the counters its write() updates                 *)
(*   pipe  the promise of stream.pipeline                                  *)
(***************************************************************************)
VARIABLES args, call, src, enc, sink, pipe

vars == <<args, call, src, enc, sink, pipe>>

Chunk(kind, data, idx) == [kind |-> kind, data |-> data, idx |-> idx]

NoEncoder ==
    [state |-> "none", err |-> NoError, wbuf |-> <<>>, inflight |-> <<>>, rbuf |-> <<>>,
     needDrain |-> FALSE, ending |-> FALSE, flush |-> "none",
     isFirst |-> TRUE, rowCount |-> 0, writer |-> "undefined", rowBuffer |-> <<>>,
     writerRows |-> 0, footerRows |-> -1,
     transformCalls |-> 0, flushCalls |-> 0, callbacks |-> 0, flushCallbacks |-> 0]

Init ==
    /\ args \in [variant : Variants, format : Selectors, rows : ResultSets]
    /\ call = [pc |-> "start", acquired |-> FALSE, clientHeld |-> FALSE, releases |-> 0,
               outcome |-> "pending", thrown |-> NoRejection, logged |-> "none",
               fileSizeBytes |-> -1]
    /\ src = [state |-> "none", pos |-> 0]
    /\ enc = NoEncoder
    /\ sink = [state |-> "none", chunks |-> <<>>, bytesWritten |-> 0, chunkCount |-> 0]
    /\ pipe = [state |-> "none", err |-> NoError]

(***************************************************************************)
(* measureExport: acquiring the client and building the formatter.         *)
(***************************************************************************)
\* const client = await pool.connect()
Connect ==
    /\ call.pc = "start"
    /\ call' = [call EXCEPT !.pc = "connected", !.acquired = TRUE, !.clientHeld = TRUE]
    /\ UNCHANGED <<args, src, enc, sink, pipe>>

\* pool.connect() rejects: the call rejects before any client is held
ConnectFail ==
    /\ call.pc = "start"
    /\ call' = [call EXCEPT !.pc = "settled", !.outcome = "rejected",
                            !.thrown = Rejection("ConnectError", "none")]
    /\ UNCHANGED <<args, src, enc, sink, pipe>>

\* Whether getFormatter(format) is evaluated inside the try block whose finally
\* releases the client: index.js calls it inside (line 47), the lib module calls
\* it at line 33, before the try of line 53.
FormatterInsideTry == args.variant = "index"

\* getFormatter throws e: the call rejects with e; finally runs only inside the try
GetFormatterThrows(e) ==
    /\ call' = [call EXCEPT !.pc = "settled", !.outcome = "rejected", !.thrown = e,
                            !.clientHeld = IF FormatterInsideTry THEN FALSE ELSE @,
                            !.releases = IF FormatterInsideTry THEN @ + 1 ELSE @]
    /\ UNCHANGED <<args, src, enc, sink, pipe>>

\* default: throw new Error(`Unknown format: ${fmt}`)
UnknownFormat ==
    /\ call.pc = "connected"
    /\ args.format \notin Formats
    /\ GetFormatterThrows(Rejection("UnknownFormat", args.format))

\* new parquet.ParquetSchema(schemaDefs) throws in the constructor
SchemaBuildFail ==
    /\ call.pc = "connected"
    /\ args.format = "parquet"
    /\ GetFormatterThrows(Rejection("SchemaError", "none"))

\* Mutant: the constructors push nothing
OpenFrameMissing(fmt) == <<>>

\* the opening frame each constructor pushes
OpenFrame(fmt) ==
    CASE fmt = "json" -> <<Chunk("open", JsonOpenFrame, <<>>)>>
      [] fmt = "csv" -> <<Chunk("open", CsvHeader, <<>>)>>
      [] fmt = "xml" -> <<Chunk("open", XmlOpenFrame, <<>>)>>
      [] OTHER -> <<>>

\* Mutant: the parquet formatter takes rows without waiting for _construct
ConstructedAtStartAlways(fmt) == "open"

\* A stream that defines _construct is not constructed until it calls back; the
\* three text formatters define none.
ConstructedAtStart(fmt) == IF fmt = "parquet" THEN "opening" ELSE "open"

\* getFormatter succeeds, nullStream is built, client.query(query) gives dbStream and
\* pipeline(dbStream, formatter, nullStream) starts.  A parquet formatter has its
\* _construct pending: writes are buffered until it calls back.
StartPipeline ==
    /\ call.pc = "connected"
    /\ args.format \in Formats
    /\ call' = [call EXCEPT !.pc = "piping"]
    /\ enc' = [NoEncoder EXCEPT !.state = ConstructedAtStart(args.format),
                                !.rbuf = OpenFrame(args.format)]
    /\ src' = [src EXCEPT !.state = "flowing"]
    /\ sink' = [sink EXCEPT !.state = "open"]
    /\ pipe' = [pipe EXCEPT !.state = "running"]
    /\ UNCHANGED args

(***************************************************************************)
(* The Transform machinery the formatters inherit (Node.js stream).        *)
(***************************************************************************)
RemoveAt(q, k) == SubSeq(q, 1, k - 1) \o SubSeq(q, k + 1, Len(q))

\* Mutant: the length leaves out the write whose callback is pending
WritableLengthBufferedOnly(e) == Len(e.wbuf)

\* Writable state.length: writes buffered plus the write whose callback is pending
WritableLength(e) == Len(e.wbuf) + Len(e.inflight)

\* Mutant: the next row is handed to _write while a write is pending
WriteIdleAlways == TRUE

\* The Writable hands the next buffered row to _write only when no write is pending
WriteIdle == enc.inflight = <<>>

\* this.push(chunk): a destroyed stream takes no chunk
Push(e, c) == IF e.state = "destroyed" THEN e ELSE [e EXCEPT !.rbuf = Append(@, c)]

\* stream.destroy(err): buffered writes are dropped, a held callback is never called;
\* an asynchronous _transform that is under way runs on
Destroy(e, err) ==
    [e EXCEPT !.state = "destroyed", !.err = err, !.wbuf = <<>>,
              !.inflight = SelectSeq(@, LAMBDA x : x.phase # "held")]

\* Mutant: the callback is never kept back, whatever the readable side holds
WriteCompletesAlways(e, k) == TRUE

\* Whether Transform._write's callback completes the write at once: the writable side
\* has ended, the transform pushed nothing, or the readable side is below its mark.
\* Otherwise the callback is kept until the consumer reads (_read).
WriteCompletes(e, k) ==
    \/ e.ending
    \/ e.inflight[k].len0 = Len(e.rbuf)
    \/ Len(e.rbuf) < ReadableHWM

\* _transform's callback() for the write at position k of the pending writes
Callback(e, k) ==
    IF e.state = "destroyed" \/ WriteCompletes(e, k)
    THEN [e EXCEPT !.inflight = RemoveAt(@, k), !.callbacks = @ + 1]
    ELSE [e EXCEPT !.inflight[k].phase = "held", !.callbacks = @ + 1]

\* Mutant: the error is noted and the stream carries on with the next row
CallbackErrorSkipsRow(e, k, err) ==
    [e EXCEPT !.inflight = RemoveAt(@, k), !.err = err, !.callbacks = @ + 1]

\* _transform's callback(err): the stream is destroyed with err
CallbackError(e, k, err) ==
    IF e.state = "destroyed"
    THEN [e EXCEPT !.inflight = RemoveAt(@, k), !.callbacks = @ + 1]
    ELSE Destroy([e EXCEPT !.inflight = RemoveAt(@, k), !.callbacks = @ + 1], err)

\* Mutant: a kept callback stays kept
ReadKeepsCallback(e) == e

\* Transform._read: the consumer took a chunk; a kept callback is called
Read(e) ==
    IF Len(e.rbuf) < ReadableHWM
    THEN [e EXCEPT !.inflight = SelectSeq(@, LAMBDA x : x.phase # "held")]
    ELSE e

(***************************************************************************)
(* The row source (dbStream) as pipeline drives it.                        *)
(***************************************************************************)
\* dbStream emits the next row and pipeline writes it to the formatter; write()
\* returns false once the writable side holds WritableHWM rows, which pauses the
\* source until 'drain'.  A destroyed formatter takes no row.
SourceEmit ==
    /\ pipe.state = "running"
    /\ src.state = "flowing"
    /\ ~enc.needDrain
    /\ src.pos < Len(args.rows)
    /\ src' = [src EXCEPT !.pos = @ + 1]
    /\ enc' = IF enc.state = "destroyed"
              THEN [enc EXCEPT !.needDrain = TRUE]
              ELSE [enc EXCEPT !.wbuf = Append(@, [i |-> src.pos + 1,
                                                   row |-> args.rows[src.pos + 1]]),
                               !.needDrain = WritableLength(enc) + 1 >= WritableHWM]
    /\ UNCHANGED <<args, call, sink, pipe>>

\* 'drain': the writable side is empty again and the source resumes
Drain ==
    /\ enc.state = "open"
    /\ enc.needDrain
    /\ WritableLength(enc) = 0
    /\ enc' = [enc EXCEPT !.needDrain = FALSE]
    /\ UNCHANGED <<args, call, src, sink, pipe>>

\* the query fails: dbStream is destroyed with the error
SourceFail ==
    /\ pipe.state = "running"
    /\ src.state = "flowing"
    /\ src' = [src EXCEPT !.state = "errored"]
    /\ UNCHANGED <<args, call, enc, sink, pipe>>

\* dbStream ends after its last row: pipeline calls formatter.end()
SourceEnd ==
    /\ pipe.state = "running"
    /\ src.state = "flowing"
    /\ ~enc.needDrain
    /\ src.pos = Len(args.rows)
    /\ src' = [src EXCEPT !.state = "ended"]
    /\ enc' = IF enc.state = "destroyed" THEN enc ELSE [enc EXCEPT !.ending = TRUE]
    /\ UNCHANGED <<args, call, sink, pipe>>

(***************************************************************************)
(* _transform and _flush of the three text formatters (synchronous).       *)
(***************************************************************************)
RowFrame(fmt, chunk, first) ==
    CASE fmt = "json" -> JsonRowFrame(chunk, first)
      [] fmt = "csv" -> CsvRowFrame(chunk)
      [] OTHER -> XmlRowFrame(chunk)

\* One _transform call.  JSON catches the exception of JSON.stringify and calls
\* back with it; CSV and XML have no try block, so an exception of prepareValue
\* leaves _transform uncaught: its callback is never called, the exception leaves
\* write() and the 'data' handler that called it, and the process ends with the
\* call unsettled and the client held.
Transform ==
    /\ args.format \in {"json", "csv", "xml"}
    /\ enc.state = "open"
    /\ enc.wbuf # <<>>
    /\ WriteIdle
    /\ LET w == Head(enc.wbuf)
           fr == RowFrame(args.format, w.row, enc.isFirst)
           k == Len(enc.inflight) + 1
           started == [enc EXCEPT !.wbuf = Tail(@), !.transformCalls = @ + 1,
                                  !.inflight = Append(@, [i |-> w.i, rec |-> <<>>,
                                                          phase |-> "run",
                                                          len0 |-> Len(enc.rbuf)])]
           pushed == [Push(started, Chunk("row", fr.s, <<w.i>>))
                          EXCEPT !.isFirst = IF args.format = "json" THEN FALSE ELSE @]
           caught == fr.ok \/ args.format = "json"
       IN  /\ enc' = IF fr.ok THEN Callback(pushed, k)
                     ELSE IF args.format = "json"
                          THEN CallbackError(started, k, "StringifyError")
                          ELSE [started EXCEPT !.state = "dead"]
           /\ call' = IF caught THEN call ELSE [call EXCEPT !.pc = "crashed"]
           /\ src' = IF caught THEN src ELSE [src EXCEPT !.state = "dead"]
           /\ sink' = IF caught THEN sink ELSE [sink EXCEPT !.state = "dead"]
           /\ pipe' = IF caught THEN pipe ELSE [pipe EXCEPT !.state = "dead"]
    /\ UNCHANGED args

CloseFrame(fmt) == IF fmt = "json" THEN JsonCloseFrame ELSE XmlCloseFrame

\* Mutant: _flush pushes the closing frame only after a first row
FlushAfterRows ==
    /\ args.format \in {"json", "csv", "xml"}
    /\ enc.state = "open"
    /\ enc.ending
    /\ Len(enc.wbuf) + Len(enc.inflight) = 0
    /\ enc.flush = "none"
    /\ enc' = IF args.format = "csv" \/ enc.transformCalls = 0
              THEN [enc EXCEPT !.flush = "done",
                               !.flushCalls = IF args.format = "csv" THEN @ ELSE @ + 1,
                               !.flushCallbacks = IF args.format = "csv" THEN @ ELSE @ + 1]
              ELSE [enc EXCEPT !.rbuf = Append(@, [kind |-> "close",
                                                   data |-> CloseFrame(args.format),
                                                   idx |-> <<>>]),
                               !.flush = "done", !.flushCalls = @ + 1,
                               !.flushCallbacks = @ + 1]
    /\ UNCHANGED <<args, call, src, sink, pipe>>

\* formatter.end() was called and every write has completed: final calls _flush.
\* JSON and XML push their closing frame; CSV defines no _flush.
Flush ==
    /\ args.format \in {"json", "csv", "xml"}
    /\ enc.state = "open"
    /\ enc.ending
    /\ WritableLength(enc) = 0
    /\ enc.flush = "none"
    /\ enc' = IF args.format = "csv"
              THEN [enc EXCEPT !.flush = "done"]
              ELSE [Push(enc, Chunk("close", CloseFrame(args.format), <<>>))
                        EXCEPT !.flush = "done", !.flushCalls = @ + 1,
                               !.flushCallbacks = @ + 1]
    /\ UNCHANGED <<args, call, src, sink, pipe>>

(***************************************************************************)
(* ParquetStreamFormatter: _construct, _transform and _flush are async.    *)
(***************************************************************************)
\* _construct: ParquetWriter.openStream resolves, the writer has written the magic
\* number through the write callback (this.push), and _construct calls back
ConstructDone ==
    /\ enc.state = "opening"
    /\ enc' = [Push(enc, Chunk("open", ParquetMagic, <<>>))
                   EXCEPT !.state = "open", !.writer = "open"]
    /\ UNCHANGED <<args, call, src, sink, pipe>>

\* _construct: openStream rejects, callback(err)
ConstructFail ==
    /\ enc.state = "opening"
    /\ enc' = Destroy(enc, "OpenError")
    /\ UNCHANGED <<args, call, src, sink, pipe>>

\* _transform up to its await: the row is prepared and writer.appendRow(row) called
ParquetTransform ==
    /\ args.format = "parquet"
    /\ enc.state = "open"
    /\ enc.wbuf # <<>>
    /\ WriteIdle
    /\ LET w == Head(enc.wbuf)
           rec == ParquetRow(w.row)
           k == Len(enc.inflight) + 1
           started == [enc EXCEPT !.wbuf = Tail(@), !.transformCalls = @ + 1,
                                  !.inflight = Append(@, [i |-> w.i, rec |-> rec.s,
                                                          phase |-> "run",
                                                          len0 |-> Len(enc.rbuf)])]
       IN  enc' = IF rec.ok THEN started ELSE CallbackError(started, k, "PrepareError")
    /\ UNCHANGED <<args, call, src, sink, pipe>>

\* the row group the writer hands to the write callback
RowGroupChunk(buf) ==
    Chunk("row", Flatten([j \in 1..Len(buf) |-> ParquetBytes(buf[j].rec)]),
          [j \in 1..Len(buf) |-> buf[j].i])

\* Mutant: the callback is never deferred
YieldDueNever(n) == FALSE

\* this.rowCount % 1000 === 0, with the model's period
YieldDue(n) == n % YieldEvery = 0

\* appendRow resolves: the writer buffered the row and wrote a row group if the
\* buffer is full; then rowCount++ and callback(), through setImmediate when due
AppendRowDone(k) ==
    /\ enc.inflight[k].phase = "run"
    /\ args.format = "parquet"
    /\ LET ent == enc.inflight[k]
           buf == Append(enc.rowBuffer, [i |-> ent.i, rec |-> ent.rec])
           written == IF Len(buf) >= RowGroupSize
                      THEN [Push(enc, RowGroupChunk(buf))
                                EXCEPT !.rowBuffer = <<>>, !.writerRows = @ + Len(buf)]
                      ELSE [enc EXCEPT !.rowBuffer = buf]
           counted == [written EXCEPT !.rowCount = @ + 1]
       IN  enc' = IF YieldDue(counted.rowCount)
                  THEN [counted EXCEPT !.inflight[k].phase = "yield"]
                  ELSE Callback(counted, k)
    /\ UNCHANGED <<args, call, src, sink, pipe>>

\* appendRow rejects: callback(err)
AppendRowFail(k) ==
    /\ enc.inflight[k].phase = "run"
    /\ args.format = "parquet"
    /\ enc' = CallbackError(enc, k, "AppendError")
    /\ UNCHANGED <<args, call, src, sink, pipe>>

\* setImmediate(callback) fires
YieldDone(k) ==
    /\ enc.inflight[k].phase = "yield"
    /\ enc' = Callback(enc, k)
    /\ UNCHANGED <<args, call, src, sink, pipe>>

\* _flush up to its await: this.writer is set, writer.close() is called
ParquetFlush ==
    /\ args.format = "parquet"
    /\ enc.state = "open"
    /\ enc.ending
    /\ WritableLength(enc) = 0
    /\ enc.flush = "none"
    /\ enc' = [enc EXCEPT !.flush = "running", !.flushCalls = @ + 1]
    /\ UNCHANGED <<args, call, src, sink, pipe>>

\* Mutant: _flush calls back without closing the writer (this.writer taken as unset)
FooterSkipped ==
    /\ enc.flush = "running"
    /\ enc' = [enc EXCEPT !.flush = "done", !.flushCallbacks = @ + 1]
    /\ UNCHANGED <<args, call, src, sink, pipe>>

\* writer.close() resolves: the buffered rows went out as a last row group, then the
\* footer; _flush calls back
FooterDone ==
    /\ enc.flush = "running"
    /\ LET last == IF enc.rowBuffer = <<>> THEN enc
                   ELSE [Push(enc, RowGroupChunk(enc.rowBuffer))
                             EXCEPT !.rowBuffer = <<>>, !.writerRows = @ + Len(enc.rowBuffer)]
       IN  enc' = [Push(last, Chunk("close", ParquetMagic, <<>>))
                       EXCEPT !.flush = "done", !.writer = "closed",
                              !.footerRows = last.writerRows, !.flushCallbacks = @ + 1]
    /\ UNCHANGED <<args, call, src, sink, pipe>>

\* writer.close() rejects: callback(err)
FooterFail ==
    /\ enc.flush = "running"
    /\ enc' = [(IF enc.state = "destroyed" THEN enc ELSE Destroy(enc, "FooterError"))
                   EXCEPT !.flush = "failed", !.flushCallbacks = @ + 1]
    /\ UNCHANGED <<args, call, src, sink, pipe>>

(***************************************************************************)
(* nullStream and the end of the pipeline.                                 *)
(***************************************************************************)
\* The formatter's next chunk is written to nullStream: write() adds chunk.length
\* to bytesWritten, counts the chunk and calls back.  Reading the chunk calls the
\* formatter's _read.
SinkWrite ==
    /\ sink.state = "open"
    /\ enc.rbuf # <<>>
    /\ sink' = [sink EXCEPT !.chunks = Append(@, Head(enc.rbuf)),
                            !.bytesWritten = @ + Len(Head(enc.rbuf).data),
                            !.chunkCount = @ + 1]
    /\ enc' = Read([enc EXCEPT !.rbuf = Tail(@)])
    /\ UNCHANGED <<args, call, src, pipe>>

\* the formatter has flushed and its last chunk is written: it ends, nullStream
\* finishes and the pipeline promise resolves
PipelineFinish ==
    /\ pipe.state = "running"
    /\ enc.state = "open"
    /\ enc.flush = "done"
    /\ enc.rbuf = <<>>
    /\ sink.state = "open"
    /\ sink' = [sink EXCEPT !.state = "finished"]
    /\ pipe' = [pipe EXCEPT !.state = "done"]
    /\ UNCHANGED <<args, call, src, enc>>

\* errors of the stages that pipeline has not seen yet
PendingErrors ==
    (IF src.state = "errored" THEN {"SourceError"} ELSE {})
        \cup (IF enc.err # NoError THEN {enc.err} ELSE {})

\* Mutant: the promise rejects but the formatter and nullStream are left running
ObserveErrorLeavesStreams ==
    /\ pipe.state = "running"
    /\ \E e \in PendingErrors : pipe' = [pipe EXCEPT !.state = "failed", !.err = e]
    /\ UNCHANGED <<args, call, src, enc, sink>>

\* pipeline sees a stage's 'error': it destroys every stream and its promise
\* rejects with that error
ObserveError ==
    /\ pipe.state = "running"
    /\ \E e \in PendingErrors : pipe' = [pipe EXCEPT !.state = "failed", !.err = e]
    /\ src' = [src EXCEPT !.state = IF @ = "flowing" THEN "destroyed" ELSE @]
    /\ enc' = [Destroy(enc, enc.err) EXCEPT !.rbuf = <<>>]
    /\ sink' = [sink EXCEPT !.state = "destroyed"]
    /\ UNCHANGED <<args, call>>

\* Whether the catch block logs the format before rethrowing (lib module, line 76);
\* index.js has no catch in measureExport
LogsFormat == args.variant = "lib"

\* Mutant: the catch block logs and does not rethrow
SettledOutcomeSwallowed == "resolved"

\* how the call settles: the result object is returned, or the catch block rethrows
SettledOutcome == IF pipe.state = "done" THEN "resolved" ELSE "rejected"

\* await pipeline(...) settles: the result is returned or the error rethrown as it
\* is, and the finally block releases the client
Settle ==
    /\ call.pc = "piping"
    /\ pipe.state \in {"done", "failed"}
    /\ call' = [call EXCEPT !.pc = "settled",
                            !.outcome = SettledOutcome,
                            !.thrown = IF pipe.state = "failed"
                                       THEN Rejection(pipe.err, "none") ELSE @,
                            !.logged = IF pipe.state = "failed" /\ LogsFormat
                                       THEN args.format ELSE @,
                            !.fileSizeBytes = IF pipe.state = "done"
                                              THEN sink.bytesWritten ELSE @,
                            !.clientHeld = FALSE,
                            !.releases = @ + 1]
    /\ UNCHANGED <<args, src, enc, sink, pipe>>

\* index.js main loop: catch (e) { console.error(`Failed ${fmt}:`, e.message) }.
\* runBenchmark of the lib module has no catch: the rejection goes to its caller.
CallerCatch ==
    /\ args.variant = "index"
    /\ call.pc = "settled"
    /\ call.outcome = "rejected"
    /\ call.logged = "none"
    /\ call' = [call EXCEPT !.logged = args.format]
    /\ UNCHANGED <<args, src, enc, sink, pipe>>

Next ==
    \/ Connect
    \/ ConnectFail
    \/ UnknownFormat
    \/ SchemaBuildFail
    \/ StartPipeline
    \/ SourceEmit
    \/ Drain
    \/ SourceFail
    \/ SourceEnd
    \/ Transform
    \/ Flush
    \/ ConstructDone
    \/ ConstructFail
    \/ ParquetTransform
    \/ \E k \in 1..Len(enc.inflight) : AppendRowDone(k)
    \/ \E k \in 1..Len(enc.inflight) : AppendRowFail(k)
    \/ \E k \in 1..Len(enc.inflight) : YieldDone(k)
    \/ ParquetFlush
    \/ FooterDone
    \/ FooterFail
    \/ SinkWrite
    \/ PipelineFinish
    \/ ObserveError
    \/ Settle
    \/ CallerCatch

Spec == Init /\ [][Next]_vars

\* The same calls over rows of any kind
InitAny ==
    /\ args \in [variant : Variants, format : Selectors, rows : AnyResultSets]
    /\ call = [pc |-> "start", acquired |-> FALSE, clientHeld |-> FALSE, releases |-> 0,
               outcome |-> "pending", thrown |-> NoRejection, logged |-> "none",
               fileSizeBytes |-> -1]
    /\ src = [state |-> "none", pos |-> 0]
    /\ enc = NoEncoder
    /\ sink = [state |-> "none", chunks |-> <<>>, bytesWritten |-> 0, chunkCount |-> 0]
    /\ pipe = [state |-> "none", err |-> NoError]

SpecAny == InitAny /\ [][Next]_vars

(***************************************************************************)
(* What the properties below read off the state.                           *)
(***************************************************************************)
TextFormats == {"json", "csv", "xml"}

\* a stage has raised an error
StageFailed == src.state = "errored" \/ enc.err # NoError

\* the errors the stages have raised
RaisedErrors ==
    (IF src.state = "errored" THEN {"SourceError"} ELSE {})
        \cup (IF enc.err # NoError THEN {enc.err} ELSE {})

CountKind(q, kind) == Cardinality({j \in 1..Len(q) : q[j].kind = kind})

\* every chunk the formatter has pushed and that is written or still buffered
Emitted == sink.chunks \o enc.rbuf

\* the bytes nullStream has received, in order
OutputText == Flatten([j \in 1..Len(sink.chunks) |-> sink.chunks[j].data])

\* the source positions of the rows whose frames nullStream has received, in order
SinkRowIdx == Flatten([j \in 1..Len(sink.chunks) |-> sink.chunks[j].idx])

\* the source positions of the rows held in the formatter
RowsOf(q) == {q[j].i : j \in 1..Len(q)}
BufferedRows ==
    RowsOf(enc.wbuf) \cup RowsOf(enc.inflight) \cup RowsOf(enc.rowBuffer)
        \cup UNION {{enc.rbuf[j].idx[m] : m \in 1..Len(enc.rbuf[j].idx)} :
                       j \in 1..Len(enc.rbuf)}

\* the header line of the projection id, name, val, meta
HeaderLine ==
    <<"i", "d", ",", "n", "a", "m", "e", ",", "v", "a", "l", ",", "m", "e", "t", "a", "\n">>

(***************************************************************************)
(* C1: every measureExport call that acquired a client has released it     *)
(* exactly once when it settles, on every path (success, pipeline error,   *)
(* unknown format, exception in the formatter's constructor); the client   *)
(* is never released twice.                                                *)
(* Violated by the lib module: getFormatter runs before the try block.     *)
(***************************************************************************)
C1_ReleasedExactlyOnce ==
    /\ call.releases <= 1
    /\ (call.pc = "settled" /\ call.acquired) => (call.releases = 1 /\ ~call.clientHeld)

(***************************************************************************)
(* C2: when an export ends cleanly, nullStream has received exactly one    *)
(* opening frame, as its first chunk, and for JSON and XML exactly one     *)
(* closing frame, as its last chunk, with one row frame per row between    *)
(* them (CSV: after the header); at no time has an opening or closing      *)
(* frame been pushed twice.                                                *)
(***************************************************************************)
C2_Framing ==
    args.format \in TextFormats =>
        /\ CountKind(Emitted, "open") <= 1
        /\ CountKind(Emitted, "close") <= 1
        /\ pipe.state = "done" =>
             LET c == sink.chunks
                 n == Len(c)
                 closes == args.format \in {"json", "xml"}
                 lastRow == IF closes THEN n - 1 ELSE n
             IN  /\ n = Len(args.rows) + (IF closes THEN 2 ELSE 1)
                 /\ c[1].kind = "open"
                 /\ c[1].data = (CASE args.format = "json" -> <<"[">>
                                   [] args.format = "csv" -> HeaderLine
                                   [] OTHER -> XmlOpenFrame)
                 /\ \A j \in 2..lastRow : c[j].kind = "row" /\ c[j].data # c[1].data
                 /\ closes => /\ c[n].kind = "close"
                              /\ c[n].data = (IF args.format = "json" THEN <<"]">>
                                              ELSE XmlCloseFrame)
                              /\ \A j \in 1..(n - 1) : c[j].data # c[n].data

C2_Witness ==
    /\ pipe.state = "done"
    /\ args.format = "xml"
    /\ Len(args.rows) >= 2
    /\ Len(sink.chunks) = Len(args.rows) + 2

(***************************************************************************)
(* C3: _flush is called at most once per export; when it is called the     *)
(* source has ended cleanly, every row it produced has gone through        *)
(* _transform and the callback of each has been called; once the source    *)
(* or the formatter has failed, or the pipeline has been aborted, _flush   *)
(* is not called.                                                          *)
(***************************************************************************)
C3_FinalizeOnce ==
    /\ [](enc.flushCalls <= 1)
    /\ [][enc'.flushCalls # enc.flushCalls =>
             /\ src.state = "ended"
             /\ src.pos = Len(args.rows)
             /\ enc.transformCalls = Len(args.rows)
             /\ enc.wbuf = <<>>
             /\ enc.inflight = <<>>]_vars
    /\ [][(StageFailed \/ pipe.state = "failed") => enc'.flushCalls = enc.flushCalls]_vars

C3_Witness ==
    /\ enc.flushCalls = 1
    /\ args.format = "parquet"
    /\ enc.transformCalls >= 3

(***************************************************************************)
(* C4: once the pipeline has seen a failure of the row source, nullStream  *)
(* receives no further write, and the call that settles after a source     *)
(* failure has released the client exactly once.                           *)
(***************************************************************************)
C4_SourceFailure ==
    /\ [](src.state = "errored" => call.releases <= 1)
    /\ []((src.state = "errored" /\ call.pc = "settled")
              => (call.releases = 1 /\ ~call.clientHeld))
    /\ [][(src.state = "errored" /\ pipe.state = "failed")
              => (sink'.chunks = sink.chunks /\ sink'.bytesWritten = sink.bytesWritten)]_vars

C4_Witness ==
    /\ src.state = "errored"
    /\ pipe.state = "failed"
    /\ src.pos >= 2
    /\ Len(sink.chunks) >= 2
    /\ src.pos > Len(SinkRowIdx)
    /\ call.pc = "settled"
    /\ call.releases = 1

(***************************************************************************)
(* C5: the rows the formatter holds (written to it and not yet written to  *)
(* nullStream) never exceed a constant fixed by the two high-water marks   *)
(* and the row-group size, whatever the length of the result set; while    *)
(* the formatter has asked the source to wait the source emits no row, and *)
(* the wait ends only when the formatter's writable side is empty.         *)
(***************************************************************************)
InFlightBound == WritableHWM + (ReadableHWM + 1) * RowGroupSize

C5_BoundedInFlight ==
    /\ [](Cardinality(BufferedRows) <= InFlightBound)
    /\ [][enc.needDrain => src'.pos = src.pos]_vars
    /\ [][(enc.needDrain /\ ~enc'.needDrain) => WritableLength(enc) = 0]_vars

C5_Witness ==
    /\ Len(args.rows) > InFlightBound
    /\ enc.needDrain
    /\ src.pos < Len(args.rows)
    /\ Len(enc.rbuf) >= ReadableHWM
    /\ sink.chunks = <<>>
    /\ \E k \in 1..Len(enc.inflight) : enc.inflight[k].phase = "held"

(***************************************************************************)
(* C6: the row frames nullStream has received are those of rows 1, 2, ...  *)
(* of the source, in that order, each once and each the frame of that      *)
(* row; at most one row is inside _transform at a time; a clean export has *)
(* written every row.                                                      *)
(***************************************************************************)
ExpectedData(c) ==
    IF args.format = "parquet"
    THEN Flatten([m \in 1..Len(c.idx) |-> Flatten(ParquetRow(args.rows[c.idx[m]]).s)])
    ELSE RowFrame(args.format, args.rows[c.idx[1]], c.idx[1] = 1).s

C6_SourceOrder ==
    /\ Len(enc.inflight) <= 1
    /\ SinkRowIdx = [j \in 1..Len(SinkRowIdx) |-> j]
    /\ \A j \in 1..Len(sink.chunks) :
           sink.chunks[j].kind = "row" => sink.chunks[j].data = ExpectedData(sink.chunks[j])
    /\ pipe.state = "done" => Len(SinkRowIdx) = Len(args.rows)

C6_Witness ==
    /\ pipe.state = "done"
    /\ args.format = "parquet"
    /\ Len(args.rows) >= 3
    /\ Len(SinkRowIdx) = Len(args.rows)

(***************************************************************************)
(* C7: once the formatter has raised an error, or the pipeline has seen    *)
(* the error of any stage, no further row enters _transform and _flush is  *)
(* not called; after the pipeline has seen it nullStream receives nothing; *)
(* a failed source emits no further row; rows enter _transform in source   *)
(* order, each at most once, so nothing is retried; and the call settles   *)
(* rejected, never resolved.                                               *)
(***************************************************************************)
C7_AbortOnError ==
    /\ [][(enc.err # NoError \/ pipe.state = "failed")
              => (enc'.transformCalls = enc.transformCalls
                  /\ enc'.flushCalls = enc.flushCalls)]_vars
    /\ [][pipe.state = "failed" => sink'.chunks = sink.chunks]_vars
    /\ [][src.state = "errored" => src'.pos = src.pos]_vars
    /\ [][enc'.transformCalls # enc.transformCalls
              => (/\ enc'.transformCalls = enc.transformCalls + 1
                  /\ enc.wbuf # <<>>
                  /\ Head(enc.wbuf).i = enc.transformCalls + 1)]_vars
    /\ [](StageFailed => pipe.state # "done")
    /\ []((StageFailed /\ call.pc = "settled") => call.outcome = "rejected")

C7_Witness ==
    /\ enc.err = "AppendError"
    /\ src.pos > enc.transformCalls
    /\ enc.transformCalls >= 2
    /\ call.pc = "settled"
    /\ call.outcome = "rejected"

C9_ZeroRows ==
    (pipe.state = "done" /\ args.rows = <<>>) =>
        CASE args.format = "json" -> OutputText = <<"[", "]">>
          [] args.format = "csv" -> OutputText = HeaderLine
          [] args.format = "xml" ->
                 OutputText = XmlOpenFrame \o <<"<", "/", "r", "e", "c", "o", "r", "d", "s", ">">>
          [] OTHER ->
                 /\ enc.writer = "closed"
                 /\ enc.flushCalls = 1
                 /\ enc.rowCount = 0
                 /\ enc.footerRows = 0
                 /\ [j \in 1..Len(sink.chunks) |-> sink.chunks[j].kind] = <<"open", "close">>

C9_Witness ==
    /\ pipe.state = "done"
    /\ args.rows = <<>>
    /\ args.format = "json"
    /\ call.outcome = "resolved"

(***************************************************************************)
(* C10, as claimed: for a non-empty result set the CSV output holds        *)
(* exactly rowCount + 1 lines, each ended by one newline.                  *)
(* Violated by a field value that holds a newline: it is written as it is, *)
(* inside the field's quotes.                                              *)
(***************************************************************************)
C10_LineCount ==
    (pipe.state = "done" /\ args.format = "csv" /\ Len(args.rows) >= 1)
        => (/\ CountChar(OutputText, "\n") = Len(args.rows) + 1
            /\ OutputText[Len(OutputText)] = "\n")

\* the positions of s that hold a double quote
QuoteAt(s) == {p \in 1..Len(s) : s[p] = "\""}

\* newlines outside quoted fields: a double quote opens or closes a field (a
\* doubled quote closes and opens again), so a position is inside a field when the
\* quotes before it are odd in number
RecordEnds(s, quoted) ==
    Cardinality({p \in 1..Len(s) :
                    /\ s[p] = "\n"
                    /\ (Cardinality({q \in QuoteAt(s) : q < p}) % 2 = 1) = quoted})

\* newline characters in the normalized values of a row's projected columns
RowNewlines(chunk) ==
    CountChar(Flatten([i \in 1..Len(columns) |->
                          prepareValue(Field(chunk, columns[i].source)).s]), "\n")

RECURSIVE SumNewlines(_)
SumNewlines(rs) == IF rs = <<>> THEN 0 ELSE RowNewlines(Head(rs)) + SumNewlines(Tail(rs))

(***************************************************************************)
(* C10, amended: for a non-empty result set the CSV output holds exactly   *)
(* rowCount + 1 records, each ended by one newline outside any quoted      *)
(* field, and ends with a newline; its newline characters are those        *)
(* rowCount + 1 plus the newlines the field values hold.                   *)
(***************************************************************************)
C10_RecordCount ==
    (pipe.state = "done" /\ args.format = "csv" /\ Len(args.rows) >= 1)
        => (/\ RecordEnds(OutputText, FALSE) = Len(args.rows) + 1
            /\ OutputText[Len(OutputText)] = "\n"
            /\ CountChar(OutputText, "\n") = Len(args.rows) + 1 + SumNewlines(args.rows))

C10_Witness ==
    /\ pipe.state = "done"
    /\ args.format = "csv"
    /\ Len(args.rows) >= 2
    /\ SumNewlines(args.rows) >= 1

(***************************************************************************)
(* What the properties over rows of any kind read off the state.           *)
(***************************************************************************)
\* the normalized values of a row's projected columns, in projection order
Normalized(chunk) == [c \in 1..Len(columns) |-> prepareValue(Field(chunk, columns[c].source))]

\* the row chunks nullStream has received
SinkRowChunks == {j \in 1..Len(sink.chunks) : sink.chunks[j].kind = "row"}

\* the row a chunk of a text format was made from
RowOf(c) == args.rows[c.idx[1]]

\* the characters of s at the positions of keep, in order
Pick(s, keep) ==
    [i \in 1..Cardinality(keep) |->
        s[CHOOSE p \in keep : Cardinality({q \in keep : q < p}) = i - 1]]

\* position p of s lies outside the quoted fields
OutsideQuotes(s, p) == Cardinality({q \in QuoteAt(s) : q < p}) % 2 = 0

\* Reading one quoted field back (RFC 4180): it opens and closes with a double
\* quote, and between them a double quote stands only as the first or second of a
\* pair, which reads as one quote.
FieldOk(f) ==
    /\ Len(f) >= 2
    /\ f[1] = "\""
    /\ f[Len(f)] = "\""
    /\ Cardinality(QuoteAt(f)) % 2 = 0
    /\ \A p \in QuoteAt(f) :
           (p > 1 /\ p < Len(f) /\ ~OutsideQuotes(f, p)) => f[p + 1] = "\"" /\ p + 1 < Len(f)

FieldText(f) ==
    Pick(f, {p \in 2..(Len(f) - 1) : f[p] # "\"" \/ ~OutsideQuotes(f, p)})

\* Reading one record of quoted fields back: a comma outside the quotes ends a
\* field, a line break outside the quotes ends the record, and nothing follows it.
CsvParse(s) ==
    LET ends == {p \in 1..Len(s) : s[p] \in {",", "\n"} /\ OutsideQuotes(s, p)}
        endOf(i) == CHOOSE p \in ends : Cardinality({q \in ends : q < p}) = i - 1
        startOf(i) == IF i = 1 THEN 1 ELSE endOf(i - 1) + 1
        fields == [i \in 1..Cardinality(ends) |-> SubSeq(s, startOf(i), endOf(i) - 1)]
    IN  IF /\ s # <<>>
           /\ s[Len(s)] = "\n"
           /\ {p \in ends : s[p] = "\n"} = {Len(s)}
           /\ \A i \in 1..Len(fields) : FieldOk(fields[i])
        THEN Ok([i \in 1..Len(fields) |-> FieldText(fields[i])])
        ELSE Thrown

\* s with each double quote written twice
QuotesDoubled(s) ==
    Flatten([p \in 1..Len(s) |-> IF s[p] = "\"" THEN <<"\"", "\"">> ELSE <<s[p]>>])

RECURSIVE SumQuotes(_)
SumQuotes(vals) ==
    IF vals = <<>> THEN 0 ELSE CountChar(Head(vals), "\"") + SumQuotes(Tail(vals))

(***************************************************************************)
(* C11: every CSV row frame written to nullStream is, for the row it was   *)
(* made from, the normalized values of the projected columns in projection *)
(* order, each between one leading and one trailing double quote with      *)
(* every double quote inside written twice, joined by commas and ended by  *)
(* a line break, whether or not a value holds a quote, a comma or a line   *)
(* break; read back as quoted fields the frame gives the normalized values.*)
(***************************************************************************)
C11_QuotedFields ==
    args.format = "csv" =>
        \A j \in SinkRowChunks :
            LET c == sink.chunks[j]
                vals == Normalized(RowOf(c))
                texts == Texts(vals)
            IN  /\ AllOk(vals)
                /\ c.data = Join([f \in 1..Len(texts) |->
                                     <<"\"">> \o QuotesDoubled(texts[f]) \o <<"\"">>],
                                 <<",">>) \o <<"\n">>
                /\ CsvParse(c.data) = Ok(texts)
                /\ CountChar(c.data, "\"") = 2 * Len(columns) + 2 * SumQuotes(texts)

C11_Witness ==
    /\ args.format = "csv"
    /\ \E j \in SinkRowChunks :
           /\ Field(RowOf(sink.chunks[j]), "name").s = TextQuotes
           /\ CountChar(sink.chunks[j].data, "\"") = 2 * Len(columns) + 16
    /\ \E j \in SinkRowChunks : "name" \notin DOMAIN RowOf(sink.chunks[j])

\* the entity that stands for one character of a value, or the character itself
XmlEntity(ch) ==
    CASE ch = "&" -> <<"&", "a", "m", "p", ";">>
      [] ch = "<" -> <<"&", "l", "t", ";">>
      [] ch = ">" -> <<"&", "g", "t", ";">>
      [] ch = "\"" -> <<"&", "q", "u", "o", "t", ";">>
      [] ch = "'" -> <<"&", "a", "p", "o", "s", ";">>
      [] OTHER -> <<ch>>

XmlEntities == {XmlEntity(ch) : ch \in {"&", "<", ">", "\"", "'"}}

\* s with each character replaced once, in a single pass
EntitiesOf(s) == Flatten([p \in 1..Len(s) |-> XmlEntity(s[p])])

\* position p of s is where one of the five entities starts
StartsEntity(s, p) ==
    \E e \in XmlEntities : p + Len(e) - 1 <= Len(s) /\ SubSeq(s, p, p + Len(e) - 1) = e

\* no raw <, >, " or ', and no & other than the first character of an entity
WellEscaped(s) ==
    \A p \in 1..Len(s) :
        /\ s[p] \notin {"<", ">", "\"", "'"}
        /\ s[p] = "&" => StartsEntity(s, p)

\* the record element that holds the given element texts, in projection order
XmlRecordOf(texts) ==
    <<" ", " ", "<", "r", "e", "c", "o", "r", "d", ">", "\n">>
        \o Flatten([f \in 1..Len(texts) |->
                       <<" ", " ", " ", " ", "<">> \o columns[f].target \o <<">">> \o texts[f]
                           \o <<"<", "/">> \o columns[f].target \o <<">", "\n">>])
        \o <<" ", " ", "<", "/", "r", "e", "c", "o", "r", "d", ">", "\n">>

(***************************************************************************)
(* C12: in every XML row frame written to nullStream the text of each      *)
(* element is the normalized value with each &, <, >, " and ' replaced     *)
(* once by &amp; &lt; &gt; &quot; &apos;: the five substitutions in the     *)
(* order of the code give what a single pass over the value gives, so no & *)
(* that a substitution wrote is escaped again; the escaped text holds no   *)
(* raw <, >, " or ' and no & that does not start one of the five entities. *)
(***************************************************************************)
C12_MarkupEscaping ==
    args.format = "xml" =>
        \A j \in SinkRowChunks :
            LET c == sink.chunks[j]
                vals == Normalized(RowOf(c))
                texts == Texts(vals)
            IN  /\ AllOk(vals)
                /\ \A f \in 1..Len(texts) :
                       /\ XmlEscape(texts[f]) = EntitiesOf(texts[f])
                       /\ WellEscaped(XmlEscape(texts[f]))
                /\ c.data = XmlRecordOf([f \in 1..Len(texts) |-> EntitiesOf(texts[f])])

\* AT&amp;T &quot;ok&quot;
C12_Witness ==
    /\ args.format = "xml"
    /\ \E j \in SinkRowChunks :
           /\ Field(RowOf(sink.chunks[j]), "name").s = TextAmp
           /\ sink.chunks[j].data =
                  XmlRecordOf(<< <<"3">>,
                                 <<"A", "T", "&", "a", "m", "p", ";", "T", " ", "&", "q", "u",
                                   "o", "t", ";", "o", "k", "&", "q", "u", "o", "t", ";">>,
                                 <<"t", "r", "u", "e">>,
                                 IsoDate >>)
    /\ \E j \in SinkRowChunks : Field(RowOf(sink.chunks[j]), "name").s = TextMarkup

\* Reading JSON text back, as far as the top level of an array goes: the commas
\* that separate the array's elements and the elements that open at its top
\* level.  st.depth is the nesting of brackets and braces, st.inStr whether the
\* scan is inside a string; esc tells whether the last character was a backslash
\* inside a string.
RECURSIVE JsonScan(_, _, _)
JsonScan(s, esc, st) ==
    IF s = <<>> THEN st
    ELSE LET ch == Head(s)
         IN  CASE st.inStr /\ esc -> JsonScan(Tail(s), FALSE, st)
               [] st.inStr /\ ~esc /\ ch = "\\" -> JsonScan(Tail(s), TRUE, st)
               [] st.inStr /\ ~esc /\ ch = "\"" ->
                      JsonScan(Tail(s), FALSE, [st EXCEPT !.inStr = FALSE])
               [] st.inStr /\ ~esc /\ ch \notin {"\\", "\""} -> JsonScan(Tail(s), FALSE, st)
               [] ~st.inStr /\ ch = "\"" -> JsonScan(Tail(s), FALSE, [st EXCEPT !.inStr = TRUE])
               [] ~st.inStr /\ ch \in {"[", "{"} ->
                      JsonScan(Tail(s), FALSE,
                               [st EXCEPT !.depth = @ + 1,
                                          !.elements = IF st.depth = 1 THEN @ + 1 ELSE @])
               [] ~st.inStr /\ ch \in {"]", "}"} ->
                      JsonScan(Tail(s), FALSE, [st EXCEPT !.depth = @ - 1])
               [] ~st.inStr /\ ch = "," ->
                      JsonScan(Tail(s), FALSE,
                               [st EXCEPT !.commas = IF st.depth = 1 THEN @ + 1 ELSE @])
               [] OTHER -> JsonScan(Tail(s), FALSE, st)

\* the scan carried through the chunks nullStream received, in order (no chunk
\* of the JSON formatter ends inside a string)
RECURSIVE JsonScanChunks(_, _)
JsonScanChunks(cs, st) ==
    IF cs = <<>> THEN st
    ELSE JsonScanChunks(Tail(cs), CHOOSE nxt \in {JsonScan(Head(cs).data, FALSE, st)} : TRUE)

JsonArrayOf(cs) ==
    LET st == JsonScanChunks(cs, [commas |-> 0, elements |-> 0, depth |-> 0, inStr |-> FALSE])
    IN  [commas |-> st.commas, elements |-> st.elements,
         closed |-> (st.depth = 0 /\ ~st.inStr)]

(***************************************************************************)
(* C13: the output of a clean JSON export of n rows is [ followed by the   *)
(* objects of rows 1..n in source order, with one comma between            *)
(* consecutive objects and none after [ or before ], followed by ]; read   *)
(* back it is a closed array of exactly n elements.  isFirst is true       *)
(* exactly until a first row frame has been pushed and never becomes true  *)
(* again.                                                                  *)
(***************************************************************************)
C13_Separators ==
    /\ []((args.format = "json" /\ pipe.state = "done") =>
              LET n == Len(args.rows)
                  objects == [i \in 1..n |-> JsonObject(args.rows[i])]
                  arr == JsonArrayOf(sink.chunks)
              IN  /\ AllOk(objects)
                  /\ OutputText = <<"[">> \o Join(Texts(objects), <<",">>) \o <<"]">>
                  /\ arr.closed
                  /\ arr.elements = n
                  /\ arr.commas = (IF n = 0 THEN 0 ELSE n - 1)
                  /\ OutputText[2] # ","
                  /\ OutputText[Len(OutputText) - 1] # ",")
    /\ [](args.format = "json" =>
              \A j \in SinkRowChunks :
                  (sink.chunks[j].data[1] = ",") <=> (sink.chunks[j].idx[1] # 1))
    /\ [](args.format = "json" =>
              (enc.isFirst <=> (enc.transformCalls = 0
                                \/ (enc.transformCalls = 1 /\ enc.err = "StringifyError"))))
    /\ [][(args.format = "json" /\ ~enc.isFirst) => ~enc'.isFirst]_vars

C13_Witness ==
    /\ args.format = "json"
    /\ pipe.state = "done"
    /\ Len(args.rows) = 3
    /\ ~enc.isFirst
    /\ \E i \in 1..3 : "name" \notin DOMAIN args.rows[i]
    /\ JsonArrayOf(sink.chunks).commas = 2

\* a value the claim calls unrepresentable: NaN or an Infinity, or a circular object
Unrepresentable(val) == val.t \in {"nonfinite", "circular"}

HoldsUnrepresentable(chunk) ==
    \E c \in 1..Len(columns) : Unrepresentable(Field(chunk, columns[c].source))

\* the source positions of the rows whose frames nullStream has received
SinkRows == {SinkRowIdx[m] : m \in 1..Len(SinkRowIdx)}

(***************************************************************************)
(* C14: in a JSON export, a row that holds a non-finite number or a        *)
(* circular object in a projected column never has an element written to   *)
(* nullStream; once it has been handed to _transform the formatter has     *)
(* failed, and the export does not end cleanly.                            *)
(* Violated by a non-finite number: JSON.stringify writes it as null and   *)
(* does not throw, so the row's element is written and the export goes on. *)
(***************************************************************************)
C14_UnrepresentableFails ==
    args.format = "json" =>
        \A i \in 1..Len(args.rows) :
            HoldsUnrepresentable(args.rows[i]) =>
                /\ i \notin SinkRows
                /\ i <= enc.transformCalls => enc.err # NoError
                /\ pipe.state # "done"

\* What does hold: a circular object fails the export and no element of its row
\* is written.
C14_CircularFails ==
    args.format = "json" =>
        \A i \in 1..Len(args.rows) :
            (\E c \in 1..Len(columns) : Field(args.rows[i], columns[c].source).t = "circular") =>
                /\ i \notin SinkRows
                /\ i <= enc.transformCalls => enc.err = "StringifyError"
                /\ pipe.state # "done"
                /\ call.outcome # "resolved"

\* the rows the source has written to the formatter so far, in source order
OfferedRows == [i \in 1..src.pos |-> [i |-> i, row |-> args.rows[i]]]

(***************************************************************************)
(* C15: the parquet formatter's _transform is entered only after           *)
(* _construct has called back without an error and this.writer is set;     *)
(* while _construct is pending every row the source has written is held in *)
(* the formatter's write buffer, in source order; the rows held are still  *)
(* there when _construct calls back and enter _transform in source order;  *)
(* when _construct fails no row ever enters _transform.                    *)
(***************************************************************************)
C15_OpenBeforeRows ==
    /\ [](args.format = "parquet" /\ enc.state = "opening"
              => /\ enc.transformCalls = 0
                 /\ enc.writer = "undefined"
                 /\ enc.inflight = <<>>
                 /\ enc.wbuf = OfferedRows)
    /\ [][(args.format = "parquet" /\ enc'.transformCalls # enc.transformCalls)
              => /\ enc.state = "open"
                 /\ enc.writer = "open"
                 /\ enc.wbuf # <<>>
                 /\ Head(enc.wbuf).i = enc.transformCalls + 1
                 /\ enc'.transformCalls = enc.transformCalls + 1]_vars
    /\ [][(enc.state = "opening" /\ enc'.state = "open")
              => (enc'.wbuf = enc.wbuf /\ enc'.writer = "open")]_vars
    /\ [](enc.err = "OpenError" => (enc.transformCalls = 0 /\ enc.rowCount = 0))
    /\ []((args.format = "parquet" /\ pipe.state = "done")
              => (enc.transformCalls = Len(args.rows)
                  /\ SinkRowIdx = [j \in 1..Len(args.rows) |-> j]))

C15_Witness ==
    /\ args.format = "parquet"
    /\ enc.state = "opening"
    /\ Len(enc.wbuf) = WritableHWM
    /\ enc.needDrain
    /\ src.pos < Len(args.rows)

\* the positions in a sequence of chunks of the chunks of one kind
KindAt(q, kind) == {j \in 1..Len(q) : q[j].kind = kind}

(***************************************************************************)
(* C16: when the parquet formatter's _flush has called back without an     *)
(* error, writer.close() has been called and has resolved: every appended  *)
(* row has gone out in a row group, the footer has been pushed after every *)
(* row group and is the last chunk pushed, exactly once; _flush never      *)
(* calls back with success while the footer is unwritten, and a clean      *)
(* export has the footer as the last chunk nullStream received.            *)
(***************************************************************************)
C16_FooterBeforeCompletion ==
    /\ [](args.format = "parquet" =>
              /\ Cardinality(KindAt(Emitted, "close")) <= 1
              /\ KindAt(Emitted, "close") # {} => enc.flush = "done")
    /\ []((args.format = "parquet" /\ enc.flush = "done") =>
              /\ enc.flushCalls = 1
              /\ enc.flushCallbacks = 1
              /\ enc.writer = "closed"
              /\ enc.rowBuffer = <<>>
              /\ enc.footerRows = enc.rowCount
              /\ enc.rowCount = Len(args.rows)
              /\ KindAt(Emitted, "close") = {Len(Emitted)}
              /\ Emitted[Len(Emitted)].data = ParquetMagic
              /\ Flatten([j \in 1..Len(Emitted) |-> Emitted[j].idx])
                     = [i \in 1..Len(args.rows) |-> i])
    /\ [][(args.format = "parquet" /\ enc'.flushCallbacks # enc.flushCallbacks
               /\ enc'.flush = "done")
              => /\ enc.flush = "running"
                 /\ KindAt(enc'.rbuf, "close") = {Len(enc'.rbuf)}
                 /\ enc'.writer = "closed"]_vars
    /\ []((args.format = "parquet" /\ pipe.state = "done") =>
              /\ sink.chunks[Len(sink.chunks)].kind = "close"
              /\ KindAt(sink.chunks, "row") \subseteq 2..(Len(sink.chunks) - 1)
              /\ enc.flush = "done")

C16_Witness ==
    /\ args.format = "parquet"
    /\ pipe.state = "done"
    /\ Len(args.rows) = 2 * RowGroupSize + 1
    /\ sink.chunks[Len(sink.chunks)].kind = "close"
    /\ sink.chunks[Len(sink.chunks) - 1].idx = <<Len(args.rows)>>
    /\ enc.footerRows = Len(args.rows)

\* the writes whose _transform has appended its row and deferred its callback
Yielding == {k \in 1..Len(enc.inflight) : enc.inflight[k].phase = "yield"}

\* the writes whose writer.appendRow is pending
Appending == {k \in 1..Len(enc.inflight) : enc.inflight[k].phase = "run"}

(***************************************************************************)
(* C17: the parquet formatter's rowCount is the number of rows appendRow   *)
(* has taken (those in the writer's buffer plus those written in row       *)
(* groups), one less than the rows handed to _transform while an appendRow *)
(* is pending and never ahead of them; on the step that appends a row the  *)
(* callback is deferred with setImmediate exactly when the new rowCount is *)
(* a positive multiple of the yield period, and is called on that step for *)
(* every other row; a callback is pending in setImmediate only at a        *)
(* multiple of the period, so no more than one period of rows is taken     *)
(* between two yields; a failed appendRow leaves rowCount as it is.        *)
(***************************************************************************)
C17_YieldPeriod ==
    /\ [](args.format = "parquet" =>
              /\ enc.rowCount = Len(enc.rowBuffer) + enc.writerRows
              /\ enc.rowCount <= enc.transformCalls
              /\ enc.rowCount + Cardinality(Appending) <= enc.transformCalls
              /\ enc.state = "open"
                     => enc.rowCount + Cardinality(Appending) = enc.transformCalls
              /\ Yielding # {} => (enc.rowCount > 0 /\ enc.rowCount % YieldEvery = 0))
    /\ [][(args.format = "parquet" /\ enc'.rowCount # enc.rowCount)
              => /\ enc'.rowCount = enc.rowCount + 1
                 /\ Appending # {}
                 /\ IF enc'.rowCount % YieldEvery = 0
                    THEN enc'.callbacks = enc.callbacks
                         /\ Cardinality({k \in 1..Len(enc'.inflight) :
                                            enc'.inflight[k].phase = "yield"}) = 1
                    ELSE enc'.callbacks = enc.callbacks + 1
                         /\ {k \in 1..Len(enc'.inflight) :
                                enc'.inflight[k].phase = "yield"} = {}]_vars
    /\ [][(args.format = "parquet" /\ Yielding # {}) => enc'.rowCount = enc.rowCount]_vars
    /\ [][(enc'.err = "AppendError" /\ enc.err = NoError)
              => enc'.rowCount = enc.rowCount]_vars

C17_Witness ==
    /\ args.format = "parquet"
    /\ enc.rowCount = 2 * YieldEvery
    /\ Yielding # {}
    /\ enc.callbacks = 2 * YieldEvery - 1

\* the formats whose _transform calls prepareValue
NormalizingFormats == {"csv", "xml", "parquet"}

(***************************************************************************)
(* C18: prepareValue does not fail for any value of any row handed to      *)
(* _transform, and gives the empty string for null and for a field the row *)
(* does not hold, the ISO-8601 text for a Date, the JSON text for any      *)
(* other object and the text of any other scalar.                          *)
(* Violated by a circular object (JSON.stringify throws) and by a Date     *)
(* that is not valid (toISOString throws).                                 *)
(***************************************************************************)
C18_NormalizeTotal ==
    args.format \in NormalizingFormats =>
        \A i \in 1..enc.transformCalls :
            \A c \in 1..Len(columns) :
                LET val == Field(args.rows[i], columns[c].source)
                    res == prepareValue(val)
                IN  /\ res.ok
                    /\ val.t \in {"null", "undefined"} => res.s = <<>>
                    /\ val.t \in {"date", "string", "number", "boolean", "nonfinite"}
                           => res.s = val.s
                    /\ val.t = "object" => res = JsonStringify(val)

\* What does hold: a row that lacks a source field has an empty field written for
\* it (CSV: "", XML: an empty element, parquet: an empty string), and the export
\* still ends cleanly.
C18_MissingFieldEmpty ==
    \A j \in SinkRowChunks :
        LET c == sink.chunks[j]
            rows == [m \in 1..Len(c.idx) |-> args.rows[c.idx[m]]]
        IN  \A m \in 1..Len(rows) :
                "name" \notin DOMAIN rows[m] =>
                    /\ Normalized(rows[m])[2] = Ok(<<>>)
                    /\ args.format = "csv" =>
                           CsvParse(c.data).s[2] = <<>>
                    /\ args.format = "xml" =>
                           c.data = XmlRecordOf([f \in 1..Len(columns) |->
                                                    IF f \in {2, 4} THEN <<>>
                                                    ELSE EntitiesOf(Normalized(rows[m])[f].s)])
                    /\ args.format = "parquet" => ParquetRow(rows[m]).s[2] = <<>>

\* the writes whose _transform has not called back yet and still will: the
\* asynchronous steps of the parquet formatter that are pending
PendingCallbacks == Cardinality(Appending) + Cardinality(Yielding)

\* the _flush that has not called back yet and still will
PendingFlush == IF enc.flush = "running" THEN 1 ELSE 0

(***************************************************************************)
(* C19: every _transform call and every _flush call of a formatter calls   *)
(* its callback exactly once: the callbacks called never exceed the calls  *)
(* made, and every call that is not waiting on an asynchronous step of the *)
(* parquet writer has called back (a synchronous _transform or _flush has  *)
(* called back when it returns).                                           *)
(* Violated by CSV and XML: an exception of prepareValue leaves their      *)
(* _transform, which has no try block, with the callback never called.     *)
(***************************************************************************)
C19_CallbackOnce ==
    /\ enc.callbacks <= enc.transformCalls
    /\ enc.flushCallbacks <= enc.flushCalls
    /\ enc.callbacks + PendingCallbacks = enc.transformCalls
    /\ enc.flushCallbacks + PendingFlush = enc.flushCalls
    /\ args.format \in TextFormats => (PendingCallbacks = 0 /\ PendingFlush = 0)

\* What does hold: the JSON and parquet formatters, whose _transform and _flush
\* wrap their work in a try block, call back exactly once whatever the row holds.
C19_CaughtFormats ==
    args.format \in {"json", "parquet"} =>
        /\ enc.callbacks + PendingCallbacks = enc.transformCalls
        /\ enc.flushCallbacks + PendingFlush = enc.flushCalls
        /\ args.format = "json" => (PendingCallbacks = 0 /\ PendingFlush = 0)
        /\ call.pc # "crashed"

(***************************************************************************)
(* Exports in which no stage fails: the format is one of the four, the     *)
(* pool hands out a client, the query delivers its rows and ends, the      *)
(* parquet writer's promises resolve.  Every step is a task of the event   *)
(* loop (an I/O completion, a resolved promise, a nextTick or setImmediate *)
(* callback), and the event loop runs the tasks it holds: as long as some  *)
(* step can be taken, a step is taken.                                     *)
(***************************************************************************)
InitClean == Init /\ args.format \in Formats

NextClean ==
    \/ Connect
    \/ StartPipeline
    \/ SourceEmit
    \/ Drain
    \/ SourceEnd
    \/ Transform
    \/ Flush
    \/ ConstructDone
    \/ ParquetTransform
    \/ \E k \in 1..Len(enc.inflight) : AppendRowDone(k)
    \/ \E k \in 1..Len(enc.inflight) : YieldDone(k)
    \/ ParquetFlush
    \/ FooterDone
    \/ SinkWrite
    \/ PipelineFinish
    \/ Settle

FairSpec == InitClean /\ [][NextClean]_vars /\ WF_vars(NextClean)

\* the export has completed: every row is written, _flush has run, the pipeline
\* has finished, the call has resolved with the byte count and released the client
Completed ==
    /\ call.pc = "settled"
    /\ call.outcome = "resolved"
    /\ call.releases = 1
    /\ ~call.clientHeld
    /\ pipe.state = "done"
    /\ src.state = "ended"
    /\ enc.flush = "done"
    /\ enc.transformCalls = Len(args.rows)
    /\ SinkRowIdx = [i \in 1..Len(args.rows) |-> i]
    /\ call.fileSizeBytes = sink.bytesWritten

\* nothing is waiting any more: the source is not paused, no row is buffered or
\* inside _transform, no callback is kept back or left to setImmediate, the
\* formatter is constructed and every chunk it pushed has been read
NoWaitLeft ==
    /\ ~enc.needDrain
    /\ enc.state = "open"
    /\ enc.wbuf = <<>>
    /\ enc.inflight = <<>>
    /\ enc.rowBuffer = <<>>
    /\ enc.rbuf = <<>>

(***************************************************************************)
(* C20: when no stage fails, every export of a finite result set, in each  *)
(* of the four formats, eventually completes and stays completed: every    *)
(* row is written to nullStream, _flush has run, the call has resolved and *)
(* the client is released; and no wait is left over: the source is not     *)
(* paused, no callback is kept back by the readable side or left to        *)
(* setImmediate, the parquet formatter's _construct has ended.             *)
(***************************************************************************)
C20_EventuallyCompletes == <>[](Completed /\ NoWaitLeft)

C20_Witness ==
    /\ Completed
    /\ args.format = "parquet"
    /\ Len(args.rows) = MaxRows
    /\ enc.rowCount = MaxRows
    /\ sink.chunkCount >= 2 + MaxRows \div RowGroupSize

====
